---- MODULE Spec2Model ----
(***************************************************************************)
(* Deterministic Turing machine simulator (turing_simulator.py).           *)
(*                                                                         *)
(* The model follows main(): a loaded specification M = (Q, Sigma, Gamma,  *)
(* delta, q0, qaccept, qreject) is checked by verify_specification(); if   *)
(* the error list is empty run() is executed on an input string with a     *)
(* step budget.  Strings are sequences of one-character strings, so that   *)
(* the formatting of a configuration (left part, state name, right part)   *)
(* is a real concatenation of characters.                                  *)
(***************************************************************************)
EXTENDS Integers, Sequences, FiniteSets, TLC

VARIABLES
    Q, Sigma, Gamma, delta, q0, qaccept, qreject,  \* the loaded specification
    errors,                                        \* result of verify_specification()
    pc,                                            \* position in main()/run()
    input_string, max_steps,                       \* arguments of run()
    tape, state, head, step, configurations,       \* locals of run()
    result,                                        \* second component of run()'s return
    printed,                                       \* the error lines main() has printed
    output,                                        \* the files save_output() has written
    exit_code,                                     \* the exit status of the process
    history                                        \* history[k+1]: tape, state, head after step k

tmVars  == <<Q, Sigma, Gamma, delta, q0, qaccept, qreject>>
argVars == <<input_string, max_steps>>
runVars == <<tape, state, head, step, configurations>>
mainVars == <<printed, output, exit_code>>
vars    == <<tmVars, errors, pc, argVars, runVars, result, mainVars, history>>

(***************************************************************************)
(* Bounds of the model and constants of the program.                       *)
(***************************************************************************)
MaxInputLen == 2        \* longest input string
SmallSteps  == 3        \* budgets 0..SmallSteps are all tried
LongSteps   == 201      \* the largest budget tried
LoopSteps   == 50       \* budget of the infinite-loop scenario
DenseLimit  == 100      \* every step below it is recorded
SampleEvery == 100      \* afterwards every SampleEvery-th step is recorded

blank == "_"            \* self.blank
None  == "None"         \* an unset q0/qaccept/qreject

(***************************************************************************)
(* Strings.                                                                *)
(***************************************************************************)
\* The characters of a state name (the f-string of get_configuration
\* interpolates the name character by character).
StateChars(q) ==
    CASE q = "q0" -> <<"q", "0">>
      [] q = "q1" -> <<"q", "1">>
      [] q = "q2" -> <<"q", "2">>
      [] q = "q3" -> <<"q", "3">>
      [] q = "qa" -> <<"q", "a">>
      [] q = "qr" -> <<"q", "r">>
      [] OTHER    -> <<q>>

\* All sequences over S of length at most n.
RECURSIVE SeqsUpTo(_, _)
SeqsUpTo(S, n) ==
    IF n = 0 THEN {<<>>}
    ELSE LET shorter == SeqsUpTo(S, n - 1)
         IN  shorter \cup {Append(s, c) : s \in shorter, c \in S}

(***************************************************************************)
(* The transition function: a dict keyed by (state, symbol), kept here as  *)
(* the sequence of its items in insertion order (keys are unique).         *)
(***************************************************************************)
T(q, a, p, b, d) ==
    [state |-> q, symbol |-> a, new_state |-> p, new_symbol |-> b, direction |-> d]

\* (state, symbol) in self.delta
InDelta(d, q, a) == \E i \in 1..Len(d) : d[i].state = q /\ d[i].symbol = a

\* self.delta[(state, symbol)]
Lookup(d, q, a) ==
    d[CHOOSE i \in 1..Len(d) : d[i].state = q /\ d[i].symbol = a]

UniqueKeys(d) ==
    \A i, j \in 1..Len(d) :
        (d[i].state = d[j].state /\ d[i].symbol = d[j].symbol) => i = j

(***************************************************************************)
(* verify_specification                                                    *)
(***************************************************************************)
Err(kind, arg) == [kind |-> kind, arg |-> arg]

When(cond, e) == IF cond THEN <<e>> ELSE <<>>

\* the checks on one item of delta without those on what the entry produces
EntryErrorsSourceOnly(QQ, GG, e) ==
       When(e.state \notin QQ,            Err("Estado en delta no esta en Q", e.state))
    \o When(e.symbol \notin GG,           Err("Simbolo en delta no esta en Gamma", e.symbol))
    \o When(e.direction \notin {"L", "R"}, Err("Direccion debe ser L o R", e.direction))

\* the five checks made on one item of delta, in the order of the code
EntryErrors(QQ, GG, e) ==
       When(e.state \notin QQ,            Err("Estado en delta no esta en Q", e.state))
    \o When(e.symbol \notin GG,           Err("Simbolo en delta no esta en Gamma", e.symbol))
    \o When(e.new_state \notin QQ,        Err("Estado en delta no esta en Q", e.new_state))
    \o When(e.new_symbol \notin GG,       Err("Simbolo en delta no esta en Gamma", e.new_symbol))
    \o When(e.direction \notin {"L", "R"}, Err("Direccion debe ser L o R", e.direction))

RECURSIVE DeltaErrors(_, _, _)
DeltaErrors(QQ, GG, d) ==
    IF d = <<>> THEN <<>>
    ELSE EntryErrors(QQ, GG, Head(d)) \o DeltaErrors(QQ, GG, Tail(d))

SetErrors(QQ, SS, GG) ==
       When(QQ = {}, Err("Conjunto de estados Q esta vacio", ""))
    \o When(SS = {}, Err("Alfabeto de entrada Sigma esta vacio", ""))
    \o When(GG = {}, Err("Alfabeto de cinta Gamma esta vacio", ""))

AlphabetErrors(SS, GG) ==
       When(blank \notin GG,    Err("Simbolo blanco no esta en Gamma", blank))
    \o When(~(SS \subseteq GG), Err("Sigma no es subconjunto de Gamma", ""))
    \o When(blank \in SS,       Err("Simbolo blanco no puede estar en Sigma", ""))

\* the three membership tests folded into one entry
SpecialStateErrorsFolded(QQ, qi, qa, qr) ==
       When(qi \notin QQ \/ qa \notin QQ \/ qr \notin QQ,
            Err("Estado inicial no esta en Q", qi))
    \o When(qa = qr,      Err("Estado de aceptacion y rechazo no pueden ser iguales", ""))

SpecialStateErrors(QQ, qi, qa, qr) ==
       When(qi \notin QQ, Err("Estado inicial no esta en Q", qi))
    \o When(qa \notin QQ, Err("Estado de aceptacion no esta en Q", qa))
    \o When(qr \notin QQ, Err("Estado de rechazo no esta en Q", qr))
    \o When(qa = qr,      Err("Estado de aceptacion y rechazo no pueden ser iguales", ""))

\* the validator stopping at the first group of checks that fails
verify_first_failure(QQ, SS, GG, d, qi, qa, qr) ==
    IF SetErrors(QQ, SS, GG) # <<>> THEN SetErrors(QQ, SS, GG)
    ELSE IF AlphabetErrors(SS, GG) # <<>> THEN AlphabetErrors(SS, GG)
    ELSE IF SpecialStateErrors(QQ, qi, qa, qr) # <<>> THEN SpecialStateErrors(QQ, qi, qa, qr)
    ELSE DeltaErrors(QQ, GG, d)

verify_specification(QQ, SS, GG, d, qi, qa, qr) ==
       SetErrors(QQ, SS, GG)
    \o AlphabetErrors(SS, GG)
    \o SpecialStateErrors(QQ, qi, qa, qr)
    \o DeltaErrors(QQ, GG, d)

(***************************************************************************)
(* get_configuration                                                       *)
(***************************************************************************)
\* while len(tape) > 1 and tape[-1] == self.blank: tape.pop()
RECURSIVE TrimTape(_)
TrimTape(t) ==
    IF Len(t) > 1 /\ t[Len(t)] = blank
    THEN TrimTape(SubSeq(t, 1, Len(t) - 1))
    ELSE t

\* Python's t[:h] and t[h:] (a negative h counts from the end)
SliceTo(t, h) ==
    LET k == IF h < 0 THEN (IF Len(t) + h < 0 THEN 0 ELSE Len(t) + h)
             ELSE (IF h > Len(t) THEN Len(t) ELSE h)
    IN  SubSeq(t, 1, k)

SliceFrom(t, h) ==
    LET k == IF h < 0 THEN (IF Len(t) + h < 0 THEN 0 ELSE Len(t) + h)
             ELSE (IF h > Len(t) THEN Len(t) ELSE h)
    IN  SubSeq(t, k + 1, Len(t))

left_part(t, h)  == SliceTo(t, h)

right_part(t, h) == IF SliceFrom(t, h) = <<>> THEN <<blank>> ELSE SliceFrom(t, h)

get_configuration(t, s, h) ==
    LET trimmed == TrimTape(t)
        kept    == IF trimmed = <<>> THEN <<blank>> ELSE trimmed
    IN  left_part(kept, h) \o StateChars(s) \o right_part(kept, h)

\* the live tape if the tape itself were passed: the pops reach it
TapeAfterCaptureAliased(t) == TrimTape(t)

\* The live tape after a call get_configuration(tape[:], ...): the pops are
\* made on the copy.
TapeAfterCapture(t) == t

(***************************************************************************)
(* The specifications the model is run on.                                 *)
(***************************************************************************)
States  == {"q0", "q1", "q2", "q3", "qa", "qr"}
Symbols == {"0", "1", blank}

Machine(d, qi) ==
    [Q |-> States, Sigma |-> {"0", "1"}, Gamma |-> Symbols, delta |-> d,
     q0 |-> qi, qaccept |-> "qa", qreject |-> "qr"]

\* accepts the strings over {0,1} that end in 1
EndsInOne ==
    << T("q0", "0", "q0", "0", "R"), T("q0", "1", "q1", "1", "R"),
       T("q1", "0", "q0", "0", "R"), T("q1", "1", "q1", "1", "R"),
       T("q1", blank, "qa", blank, "R"), T("q0", blank, "qr", blank, "R") >>

\* never halts, on a tape of bounded length
Bounce ==
    << T("q0", "0", "q1", "0", "R"), T("q0", "1", "q1", "1", "R"),
       T("q0", blank, "q1", blank, "R"),
       T("q1", "0", "q0", "1", "L"), T("q1", "1", "q0", "0", "L"),
       T("q1", blank, "q0", "1", "L") >>

\* never halts, the tape grows at the back
RunRight ==
    << T("q0", "0", "q0", "1", "R"), T("q0", "1", "q0", blank, "R"),
       T("q0", blank, "q0", blank, "R") >>

\* never halts, the tape grows at the front
RunLeft ==
    << T("q0", "0", "q0", blank, "L"), T("q0", "1", "q0", "1", "L"),
       T("q0", blank, "q0", "0", "L") >>

\* the 4-state busy beaver (blank for 0): halts after 107 steps on a blank tape
Beaver(halt) ==
    << T("q0", blank, "q1", "1", "R"), T("q0", "1", "q1", "1", "L"),
       T("q1", blank, "q0", "1", "L"), T("q1", "1", "q2", blank, "L"),
       T("q2", blank, halt, "1", "R"), T("q2", "1", "q3", "1", "L"),
       T("q3", blank, "q3", "1", "R"), T("q3", "1", "q0", blank, "R") >>

\* the same machine without its halting entry: it stops on a missing transition
BeaverStuck == SubSeq(Beaver("qa"), 1, 4) \o SubSeq(Beaver("qa"), 6, 8)

\* halts at once; the terminal states have outgoing entries of their own
Terminals ==
    << T("q0", "1", "qa", "0", "R"), T("q0", "0", "qr", "1", "L"),
       T("q0", blank, "qa", "1", "L"),
       T("qa", "0", "q0", "1", "R"), T("qa", "1", "q0", "0", "L"),
       T("qa", blank, "q0", "1", "R"),
       T("qr", "0", "q0", "1", "R"), T("qr", "1", "q0", "0", "L"),
       T("qr", blank, "q0", "1", "L") >>

\* erases the input and stops on the first blank (missing transition)
Erase ==
    << T("q0", "0", "q0", blank, "R"), T("q0", "1", "q0", blank, "R") >>

\* a state whose name is a tape symbol
Marked ==
    [Q |-> {"1", "qa", "qr"}, Sigma |-> {"0", "1"}, Gamma |-> Symbols,
     delta |-> << T("1", "1", "1", "1", "R"), T("1", "0", "1", "1", "R"),
                  T("1", blank, "qa", blank, "L") >>,
     q0 |-> "1", qaccept |-> "qa", qreject |-> "qr"]

\* a tape alphabet without the symbol 0
Narrow ==
    [Q |-> {"q0", "qa", "qr"}, Sigma |-> {"1"}, Gamma |-> {"1", blank},
     delta |-> << T("q0", "1", "q0", blank, "R"), T("q0", blank, "qa", "1", "L") >>,
     q0 |-> "q0", qaccept |-> "qa", qreject |-> "qr"]

RunMachines ==
       { Machine(d, "q0") :
            d \in { EndsInOne, Bounce, RunRight, RunLeft, Beaver("qa"), Beaver("qr"),
                    BeaverStuck, Terminals, Erase, <<>> } }
  \cup { Machine(Terminals, "qa"), Machine(Terminals, "qr"), Machine(Bounce, "qa") }
  \cup { Marked, Narrow }

\* Specifications for the validator: every field varies on its own.
VerifyDeltas ==
    { <<>>,
      << T("q0", "1", "qa", "1", "R") >>,
      << T("zz", "1", "qa", "1", "R") >>,
      << T("q0", "x", "qa", "1", "L") >>,
      << T("q0", "1", "qa", "x", "L") >>,
      << T("q0", "1", "qa", "1", "S") >>,
      << T("zz", "1", "zz", "1", "L") >>,
      << T("q0", "1", "zz", "1", "R"), T("q0", blank, "zz", blank, "L") >> }

VerifyMachines ==
    [ Q : {{}, {"q0", "qa", "qr"}},
      Sigma : {{}, {"1"}, {"1", blank}, {"1", "x"}},
      Gamma : {{}, {"1"}, {"1", blank}},
      delta : VerifyDeltas,
      q0 : {"q0", None}, qaccept : {"qa", None}, qreject : {"qr", "qa", None} ]

Machines == RunMachines \cup VerifyMachines

Inputs  == SeqsUpTo(Symbols, MaxInputLen)
Budgets == (0..SmallSteps) \cup {LoopSteps, DenseLimit, DenseLimit + 1, LongSteps}

(***************************************************************************)
(* main() and run()                                                        *)
(***************************************************************************)
Init ==
    /\ \E m \in Machines :
          /\ Q = m.Q /\ Sigma = m.Sigma /\ Gamma = m.Gamma /\ delta = m.delta
          /\ q0 = m.q0 /\ qaccept = m.qaccept /\ qreject = m.qreject
    /\ errors = <<>>
    /\ pc = "load"
    /\ input_string = <<>> /\ max_steps = 0
    /\ tape = <<>> /\ state = None /\ head = 0 /\ step = 0
    /\ configurations = <<>>
    /\ result = None
    /\ printed = <<>> /\ output = <<>> /\ exit_code = None
    /\ history = <<>>

\* input_string = tm.load_from_file(input_file) returns
Load ==
    /\ pc = "load"
    /\ pc' = "verify"
    /\ UNCHANGED <<tmVars, mainVars, errors, argVars, runVars, result, history>>

\* load_from_file raises (file not found, malformed transition): main prints
\* the error and exits with status 1
LoadError ==
    /\ pc = "load"
    /\ printed' = <<Err("ERROR", "")>>
    /\ exit_code' = 1
    /\ pc' = "exit"
    /\ UNCHANGED <<tmVars, errors, argVars, runVars, result, output, history>>

\* errors = tm.verify_specification()
Verify ==
    /\ pc = "verify"
    /\ errors' = verify_specification(Q, Sigma, Gamma, delta, q0, qaccept, qreject)
    /\ pc' = "verified"
    /\ UNCHANGED <<tmVars, mainVars, argVars, runVars, result, history>>

\* main going on to run() whatever the validator returned
RefuseNothing == FALSE

\* if errors:
Refuse == errors # <<>>

\* if errors: print every error; sys.exit(1)
Exit ==
    /\ pc = "verified"
    /\ Refuse
    /\ printed' = errors
    /\ exit_code' = 1
    /\ pc' = "exit"
    /\ UNCHANGED <<tmVars, errors, argVars, runVars, result, output, history>>

\* what the run has reached: the live tape, the state and the head
Situation(t, s, h) == [tape |-> t, state |-> s, head |-> h]

\* the seeding without the blank cell for empty input
InitialTapeNoBlank(inp) == inp

\* the tape run() starts from
InitialTape(inp) == IF inp # <<>> THEN inp ELSE <<blank>>

\* run(input_string, max_steps) up to the first test of the loop
RunStart ==
    /\ pc = "verified"
    /\ ~Refuse
    /\ \E inp \in Inputs, max \in Budgets :
          /\ input_string' = inp
          /\ max_steps' = max
          /\ tape' = TapeAfterCapture(InitialTape(inp))
          /\ configurations' = <<get_configuration(InitialTape(inp), q0, 0)>>
          /\ history' = <<Situation(InitialTape(inp), q0, 0)>>
    /\ state' = q0
    /\ head' = 0
    /\ step' = 0
    /\ pc' = "while"
    /\ UNCHANGED <<tmVars, mainVars, errors, result>>

\* the loop test without the budget
ContinueNoBudget == state # qaccept /\ state # qreject

\* the loop test without the rejecting state
ContinueNoReject == state # qaccept /\ step < max_steps

\* the loop test with the budget off by one
ContinueOffByOne == state # qaccept /\ state # qreject /\ step < max_steps - 1

\* the loop test with the budget included
ContinueInclusive == state # qaccept /\ state # qreject /\ step <= max_steps

\* while state != self.qaccept and state != self.qreject and step < max_steps
Continue == state # qaccept /\ state # qreject /\ step < max_steps

\* the tape and the head after the bounds extension at the top of the loop body
ExtendedFront(t, h) == IF h < 0 THEN <<blank>> \o t ELSE t
HeadFront(h)        == IF h < 0 THEN 0 ELSE h
\* the extension without the append at the back
ExtendedTapeFrontOnly(t, h) == ExtendedFront(t, h)

ExtendedTape(t, h) ==
    IF HeadFront(h) >= Len(ExtendedFront(t, h))
    THEN Append(ExtendedFront(t, h), blank)
    ELSE ExtendedFront(t, h)

Extend ==
    /\ pc = "while"
    /\ Continue
    /\ tape' = ExtendedTape(tape, head)
    /\ head' = HeadFront(head)
    /\ pc' = "read"
    /\ UNCHANGED <<tmVars, mainVars, errors, argVars, state, step, configurations, result, history>>

LoopExit ==
    /\ pc = "while"
    /\ ~Continue
    /\ pc' = "result"
    /\ UNCHANGED <<tmVars, mainVars, errors, argVars, runVars, result, history>>

\* current_symbol = tape[head]
current_symbol == tape[head + 1]

\* the same, capturing before the state is set
RejectedTraceStale(confs, t, h) == Append(confs, get_configuration(t, state, h))

\* the trace after a missing transition: the state is set to qreject first,
\* then the configuration is captured
RejectedTrace(confs, t, h) == Append(confs, get_configuration(t, qreject, h))

\* (state, current_symbol) not in self.delta: reject and leave the loop
NoTransition ==
    /\ pc = "read"
    /\ ~InDelta(delta, state, current_symbol)
    /\ state' = qreject
    /\ configurations' = RejectedTrace(configurations, tape, head)
    /\ tape' = TapeAfterCapture(tape)
    /\ pc' = "result"
    /\ UNCHANGED <<tmVars, mainVars, errors, argVars, head, step, result, history>>

\* the tape and the head after writing and moving
Written(t, h, e) == [t EXCEPT ![h + 1] = e.new_symbol]

MovedTape(t, h, e) ==
    IF e.direction = "L" /\ h - 1 < 0 THEN <<blank>> \o Written(t, h, e)
    ELSE Written(t, h, e)

MovedHead(h, e) ==
    IF e.direction = "R" THEN h + 1
    ELSE IF e.direction = "L" THEN (IF h - 1 < 0 THEN 0 ELSE h - 1)
    ELSE h

\* the recorder without the clause for the terminal step
SampledNoTerminal(n, s) == n < DenseLimit \/ n % SampleEvery = 0

\* the recorder keeping every step
SampledAlways(n, s) == TRUE

\* if step < 100 or step % 100 == 0 or state in [self.qaccept, self.qreject]
Sampled(n, s) == n < DenseLimit \/ n % SampleEvery = 0 \/ s \in {qaccept, qreject}

\* the step if delta were a list of rules tried by state alone
ApplyAnyTransition ==
    /\ pc = "read"
    /\ InDelta(delta, state, current_symbol)
    /\ \E k \in 1..Len(delta) :
          /\ delta[k].state = state
          /\ head' = MovedHead(head, delta[k])
          /\ state' = delta[k].new_state
          /\ step' = step + 1
          /\ tape' = TapeAfterCapture(MovedTape(tape, head, delta[k]))
          /\ configurations' =
                IF Sampled(step + 1, delta[k].new_state)
                THEN Append(configurations,
                            get_configuration(tape', delta[k].new_state, head'))
                ELSE configurations
          /\ history' = Append(history, Situation(tape', delta[k].new_state, head'))
    /\ pc' = "while"
    /\ UNCHANGED <<tmVars, mainVars, errors, argVars, result>>

ApplyTransition ==
    /\ pc = "read"
    /\ InDelta(delta, state, current_symbol)
    /\ LET e  == Lookup(delta, state, current_symbol)
           t1 == MovedTape(tape, head, e)
           h1 == MovedHead(head, e)
           c1 == get_configuration(t1, e.new_state, h1)
       IN  /\ head' = h1
           /\ state' = e.new_state
           /\ step' = step + 1
           /\ IF Sampled(step + 1, e.new_state)
              THEN /\ configurations' = Append(configurations, c1)
                   /\ tape' = TapeAfterCapture(t1)
              ELSE /\ configurations' = configurations
                   /\ tape' = t1
           /\ history' = Append(history, Situation(tape', e.new_state, h1))
    /\ pc' = "while"
    /\ UNCHANGED <<tmVars, mainVars, errors, argVars, result>>

\* the result computed after the loop
Result ==
    IF step >= max_steps THEN "CICLO INFINITO"
    ELSE IF state = qaccept THEN "ACEPTADA"
    ELSE IF state = qreject THEN "RECHAZADA"
    ELSE "DESCONOCIDO"

Return ==
    /\ pc = "result"
    /\ result' = Result
    /\ pc' = "returned"
    /\ UNCHANGED <<tmVars, mainVars, errors, argVars, runVars, history>>

\* Número de pasos: len(configurations) - 1
ReportedSteps(confs) == Len(confs) - 1

\* tm.save_output(output_file, configurations, result), the summary, exit 0
SaveOutput ==
    /\ pc = "returned"
    /\ output' = <<[configurations |-> configurations, result |-> result,
                  pasos |-> ReportedSteps(configurations)]>>
    /\ exit_code' = 0
    /\ pc' = "saved"
    /\ UNCHANGED <<tmVars, errors, argVars, runVars, result, printed, history>>

Next ==
    \/ Load
    \/ LoadError
    \/ Verify
    \/ Exit
    \/ RunStart
    \/ Extend
    \/ LoopExit
    \/ NoTransition
    \/ ApplyTransition
    \/ Return
    \/ SaveOutput

Spec == Init /\ [][Next]_vars

(***************************************************************************)
(* Properties                                                              *)
(***************************************************************************)
InRun    == pc \in {"while", "read", "result", "returned"}
Returned == pc = "returned"
Terminal(s) == s \in {qaccept, qreject}

\* C1: the result of run() follows the condition that ended the loop: Accepted
\* when the state is acceptState, Rejected when it is rejectState, and
\* StepLimitReached only when neither terminal state was reached.
C1_ResultFollowsExitCondition ==
    Returned =>
        /\ (state = qaccept => result = "ACEPTADA")
        /\ (state = qreject => result = "RECHAZADA")
        /\ (result = "CICLO INFINITO" => ~Terminal(state))

\* C5: a run on a validated specification returns one of the three results,
\* never "DESCONOCIDO".
C5_OneOfThreeResults ==
    Returned => result \in {"ACEPTADA", "RECHAZADA", "CICLO INFINITO"}

\* a run that starts in the rejecting state with a positive budget
C5_Witness ==
    Returned /\ q0 = qreject /\ max_steps > 0 /\ result = "RECHAZADA"

\* the step taken from the read position when no transition is defined
MissingTransitionStep ==
    (pc = "read" /\ ~InDelta(delta, state, tape[head + 1])) =>
        /\ ~Terminal(state) /\ step < max_steps
        /\ state' = qreject
        /\ Len(configurations') = Len(configurations) + 1
        /\ SubSeq(configurations', 1, Len(configurations)) = configurations
        /\ configurations'[Len(configurations')] = get_configuration(tape, qreject, head)
        /\ tape' = tape /\ head' = head /\ step' = step
        /\ history' = history
        /\ pc' = "result"

\* after a rejection within the budget nothing more is applied and the result
\* is Rejected
RejectedStep ==
    (pc = "result" /\ state = qreject /\ step < max_steps) =>
        /\ UNCHANGED runVars
        /\ result' = "RECHAZADA"
        /\ pc' = "returned"

\* empty input, no transition for (initialState, blank), a positive budget
EmptyInputRejected ==
    (/\ Returned /\ input_string = <<>> /\ max_steps > 0
     /\ ~Terminal(q0) /\ ~InDelta(delta, q0, blank)) =>
        /\ Len(configurations) = 2
        /\ configurations[2] = StateChars(qreject) \o <<blank>>
        /\ step = 0
        /\ result = "RECHAZADA"

\* C2: a missing transition in a non-terminal state within the budget rejects
\* at once: the state becomes rejectState, exactly one configuration showing
\* it is appended, tape, head and step counter stay as they are, nothing more
\* is applied and the result is Rejected; with empty input and no transition
\* for (initialState, blank) the trace has exactly two entries.
C2_MissingTransitionRejects ==
    /\ [][MissingTransitionStep /\ RejectedStep]_vars
    /\ []EmptyInputRejected

\* a missing transition met after the head has left the written part of the
\* tape, at a step that would not have been recorded otherwise
C2_Witness ==
    /\ Returned /\ result = "RECHAZADA"
    /\ Len(history) = step + 1 /\ history[step + 1].state # qreject
    /\ step > DenseLimit /\ step % SampleEvery # 0

\* the steps of h that the recorder keeps (h[k + 1] is the situation after step k)
KeptSteps(h) ==
    { k \in 0..(Len(h) - 1) :
        k < DenseLimit \/ k % SampleEvery = 0 \/ Terminal(h[k + 1].state) }

\* the trace c holds exactly the configurations of the kept steps of h, in
\* the order of the steps, followed by the entries of last
HoldsKept(c, h, last) ==
    LET K       == KeptSteps(h)
        place(k) == Cardinality({j \in K : j <= k})
    IN  /\ Len(c) = Cardinality(K) + Len(last)
        /\ \A k \in K :
              c[place(k)] = get_configuration(h[k + 1].tape, h[k + 1].state, h[k + 1].head)
        /\ \A i \in 1..Len(last) : c[Cardinality(K) + i] = last[i]

\* the configuration in which a run rejected on a missing transition, if it did
RejectingEntry ==
    IF state = qreject /\ history[Len(history)].state # qreject
    THEN <<get_configuration(tape, state, head)>>
    ELSE <<>>

\* C3: the trace holds the configuration after step k for every k < 100, for
\* every k that is a multiple of 100, the final terminal configuration, and
\* nothing else.
C3_SamplingCorrect ==
    pc \in {"result", "returned"} =>
        /\ Len(history) = step + 1
        /\ HoldsKept(configurations, history, RejectingEntry)

\* a run that lands on the accepting state after more than 100 steps, at a
\* step that is no multiple of 100
C3_Witness ==
    /\ Returned /\ state = qaccept
    /\ step > DenseLimit /\ step % SampleEvery # 0
    /\ Len(configurations) < step + 1

\* the step counter moves by one, and only when a transition is applied
StepCounts ==
    /\ step' = step \/ step' = step + 1
    /\ step' = step + 1 <=> (pc = "read" /\ InDelta(delta, state, tape[head + 1]))

\* the loop is left as soon as the state is terminal or the budget is used up
LoopExits ==
    (pc = "while" /\ (Terminal(state) \/ step >= max_steps)) =>
        (pc' = "result" /\ UNCHANGED runVars)

\* what is left of a run: the unused budget, then the position in the iteration
Measure ==
    CASE pc = "while"    -> 2 * (max_steps - step) + 3
      [] pc = "read"     -> 2 * (max_steps - step) + 2
      [] pc = "result"   -> 1
      [] OTHER           -> 0

\* a run that has not returned can take its next step
NeverStuck ==
    (InRun /\ ~Returned) =>
        \/ pc = "while"
        \/ pc = "read" /\ head + 1 \in DOMAIN tape
        \/ pc = "result"

\* C4: every run on a validated specification terminates: the step counter
\* increases by one per applied transition and never exceeds max_steps, and the
\* loop exits as soon as the state is acceptState or rejectState or the counter
\* reaches max_steps.
\* Termination is stated by a measure that is never negative and decreases
\* with every step of a run, and a run that has not returned is at a position
\* from which it can step (the one partial operation, the read of tape[head],
\* is defined).
C4_RunTerminates ==
    /\ [](InRun => (step >= 0 /\ step <= max_steps /\ Measure >= 0))
    /\ []NeverStuck
    /\ [][StepCounts /\ LoopExits /\ ((InRun /\ ~Returned) => Measure' < Measure)]_vars

\* a run that never halts, stopped by the largest budget
C4_Witness ==
    /\ Returned /\ ~Terminal(state)
    /\ step = max_steps /\ max_steps = LongSteps

\* what run() has done once a terminal state is reached: nothing more
AbsorbingStep ==
    (InRun /\ Terminal(state)) => UNCHANGED runVars

\* a run that starts in a terminal state
TerminalStart ==
    (pc \in {"result", "returned"} /\ Terminal(q0)) =>
        (step = 0 /\ Len(configurations) = 1 /\ state = q0 /\ Len(history) = 1)

\* C6: terminal states are absorbing: once the state is acceptState or
\* rejectState no transition is applied, nothing is written to the tape and
\* nothing is appended to the trace, whatever entries the transition map has
\* for terminal states; a run whose initialState is terminal ends after zero
\* steps with a one-entry trace.
C6_TerminalAbsorbing ==
    /\ [][AbsorbingStep]_vars
    /\ []TerminalStart

\* a run started in the accepting state, with a budget, where the map has an
\* entry for (acceptState, symbol under the head)
C6_Witness ==
    /\ Returned /\ q0 = qaccept /\ max_steps > 0
    /\ InDelta(delta, qaccept, tape[head + 1])

\* C7: after the bounds extension and before the symbol is read the head is
\* inside the tape.
C7_HeadInBounds ==
    pc = "read" => (0 <= head /\ head < Len(tape))

\* a read of a cell that the extension has just appended
C7_Witness ==
    /\ pc = "read" /\ head = Len(tape) - 1
    /\ Len(history) = step + 1
    /\ Len(tape) = Len(history[step + 1].tape) + 1

\* the tape run() is seeded with, written out
Seed == IF input_string = <<>> THEN <<blank>> ELSE input_string

\* how the live tape changes in one step of a run
TapeGrowsOnDemand ==
    InRun =>
        /\ Len(tape') >= Len(tape)
        /\ CASE pc = "while" /\ pc' = "read" ->
                    /\ 0 <= head /\ head <= Len(tape)
                    /\ tape' = IF head = Len(tape) THEN Append(tape, blank) ELSE tape
                    /\ head' = head /\ state' = state
             [] pc = "read" /\ pc' = "while" ->
                    LET e == Lookup(delta, state, tape[head + 1])
                        w == [tape EXCEPT ![head + 1] = e.new_symbol]
                    IN  /\ tape' = IF e.direction = "L" /\ head = 0
                                   THEN <<blank>> \o w
                                   ELSE w
                        /\ Len(tape') - Len(tape) \in {0, 1}
             [] OTHER ->
                    tape' = tape /\ head' = head

\* the capture of the initial configuration leaves the seeded tape as it is
SeededTape ==
    (pc = "verified" /\ pc' = "while") =>
        (tape' = (IF input_string' = <<>> THEN <<blank>> ELSE input_string')
         /\ head' = 0 /\ state' = q0)

\* C8: the live tape never shrinks and grows only on demand, by one blank cell
\* at the back when the head is at index len(tape) before a read and at the
\* front on a Left move from index 0; capturing a configuration leaves the
\* live tape, the head and the state unchanged.
C8_TapeNeverShrinks ==
    [][TapeGrowsOnDemand /\ SeededTape]_vars

\* after a recorded Left move from index 0 the live tape still ends in blanks
C8_Witness ==
    /\ pc = "while" /\ step > 0 /\ step < DenseLimit
    /\ head = 0 /\ tape[1] = blank
    /\ Len(tape) > Len(Seed) /\ tape[Len(tape)] = blank
    /\ Len(configurations) = step + 1

\* how run() starts, apart from the text of the first entry
StartsFromInput ==
    /\ InRun => (Len(configurations) >= 1 /\ Len(history) >= 1)
    /\ InRun => history[1] = Situation(Seed, q0, 0)
    /\ (pc = "while" /\ step = 0) =>
          /\ tape = Seed /\ head = 0 /\ state = q0
          /\ Len(configurations) = 1

\* C9 as stated: run() starts from the input (one cell per character, a single
\* blank for empty input), head 0, initialState and step 0, and the first entry
\* of the trace is initialState followed by the input (by the blank symbol for
\* empty input).
C9_FirstEntryIsInput ==
    /\ StartsFromInput
    /\ InRun => configurations[1] = StateChars(q0) \o Seed

\* t without its trailing blanks, one cell at least
Stripped(t) ==
    CHOOSE p \in {SubSeq(t, 1, n) : n \in 1..Len(t)} :
        /\ \A i \in (Len(p) + 1)..Len(t) : t[i] = blank
        /\ Len(p) = 1 \/ p[Len(p)] # blank

\* C9 amended: as above, the first entry being initialState followed by the
\* input without its trailing blank symbols (one cell is always kept).
C9_FirstEntryIsTrimmedInput ==
    /\ StartsFromInput
    /\ InRun => configurations[1] = StateChars(q0) \o Stripped(Seed)

\* a run with a budget of 0 on an input that ends in a blank
C9_Witness ==
    /\ Returned /\ max_steps = 0
    /\ Len(input_string) = 2 /\ input_string[1] # blank /\ input_string[2] = blank
    /\ Len(configurations) = 1

\* the seven consistency checks of a specification
Check1 == Q # {} /\ Sigma # {} /\ Gamma # {}
Check2 == blank \in Gamma
Check3 == \A a \in Sigma : a \in Gamma
Check4 == blank \notin Sigma
Check5 == {q0, qaccept, qreject} \subseteq Q
Check6 == qaccept # qreject
Check7 ==
    \A i \in 1..Len(delta) :
        /\ delta[i].state \in Q /\ delta[i].new_state \in Q
        /\ delta[i].symbol \in Gamma /\ delta[i].new_symbol \in Gamma
        /\ delta[i].direction \in {"L", "R"}

Holds(c) ==
    CASE c = 1 -> Check1 [] c = 2 -> Check2 [] c = 3 -> Check3 [] c = 4 -> Check4
      [] c = 5 -> Check5 [] c = 6 -> Check6 [] c = 7 -> Check7

\* the check an error description names
Category(kind) ==
    CASE kind \in {"Conjunto de estados Q esta vacio",
                   "Alfabeto de entrada Sigma esta vacio",
                   "Alfabeto de cinta Gamma esta vacio"}      -> 1
      [] kind = "Simbolo blanco no esta en Gamma"             -> 2
      [] kind = "Sigma no es subconjunto de Gamma"            -> 3
      [] kind = "Simbolo blanco no puede estar en Sigma"      -> 4
      [] kind \in {"Estado inicial no esta en Q",
                   "Estado de aceptacion no esta en Q",
                   "Estado de rechazo no esta en Q"}          -> 5
      [] kind = "Estado de aceptacion y rechazo no pueden ser iguales" -> 6
      [] OTHER                                                -> 7

\* the single conditions that are violated: <<0, name>> for a condition on
\* the sets and the special states, <<i, field>> for one on the i-th entry
Violations ==
         {c \in {0} \X {"Q", "Sigma", "Gamma", "blank in Gamma", "subset", "blank in Sigma",
                        "q0", "qaccept", "qreject", "distinct"} :
             \/ c[2] = "Q" /\ Q = {}
             \/ c[2] = "Sigma" /\ Sigma = {}
             \/ c[2] = "Gamma" /\ Gamma = {}
             \/ c[2] = "blank in Gamma" /\ blank \notin Gamma
             \/ c[2] = "subset" /\ ~(Sigma \subseteq Gamma)
             \/ c[2] = "blank in Sigma" /\ blank \in Sigma
             \/ c[2] = "q0" /\ q0 \notin Q
             \/ c[2] = "qaccept" /\ qaccept \notin Q
             \/ c[2] = "qreject" /\ qreject \notin Q
             \/ c[2] = "distinct" /\ qaccept = qreject}
    \cup {c \in (1..Len(delta)) \X {"state", "symbol", "new_state", "new_symbol", "direction"} :
             \/ c[2] = "state" /\ delta[c[1]].state \notin Q
             \/ c[2] = "symbol" /\ delta[c[1]].symbol \notin Gamma
             \/ c[2] = "new_state" /\ delta[c[1]].new_state \notin Q
             \/ c[2] = "new_symbol" /\ delta[c[1]].new_symbol \notin Gamma
             \/ c[2] = "direction" /\ delta[c[1]].direction \notin {"L", "R"}}

\* verify_specification() has returned
Verified == pc \notin {"load", "verify"} /\ printed # <<Err("ERROR", "")>>

\* C10: verify_specification() returns an empty list exactly when the seven
\* checks hold, and every violated check contributes an entry (the checks are
\* not short-circuited).
C10_EmptyIffWellFormed ==
    Verified =>
        /\ errors = <<>> <=> \A c \in 1..7 : Holds(c)
        /\ \A c \in 1..7 :
              ~Holds(c) <=> \E i \in 1..Len(errors) : Category(errors[i].kind) = c
        /\ Len(errors) = Cardinality(Violations)

\* a specification that violates several checks at once
C10_Witness ==
    /\ pc = "exit"
    /\ ~Check1 /\ ~Check2 /\ ~Check5 /\ ~Check6 /\ ~Check7
    /\ Len(errors) >= 6

\* the checks a specification violates
ViolatedChecks == {c \in 1..7 : ~Holds(c)}

GatedRun ==
    (~InRun /\ InRun') =>
        /\ pc = "verified"
        /\ errors = <<>> /\ printed = <<>>
        /\ \A c \in 1..7 : Holds(c)

\* nothing is executed after the process has exited
ExitIsFinal == pc = "exit" => (pc' = "exit" /\ UNCHANGED <<runVars, result, output>>)

\* where main() can be with respect to the outcome of loading and validation
NoPartialExecution ==
    /\ (InRun \/ pc = "saved") =>
          /\ errors = <<>> /\ printed = <<>>
          /\ \A c \in 1..7 : Holds(c)
    /\ (Verified /\ \E c \in 1..7 : ~Holds(c)) => pc \in {"verified", "exit"}
    /\ pc = "exit" =>
          /\ exit_code = 1
          /\ configurations = <<>> /\ history = <<>> /\ tape = <<>>
          /\ result = None /\ output = <<>>
          /\ \/ printed = <<Err("ERROR", "")>> /\ errors = <<>>
             \/ /\ printed = errors /\ errors # <<>>
                /\ Len(printed) = Cardinality(Violations)
    /\ output # <<>> => (pc = "saved" /\ exit_code = 0)

\* C12: in main() stepping never begins on a specification that failed to
\* load or has a non-empty validation error list: run() is entered only after
\* verify_specification() returned an empty list; otherwise all the errors are
\* reported, the process exits non-zero, and neither run() nor save_output()
\* is called.
C12_NoRunOnInvalid ==
    /\ []NoPartialExecution
    /\ [][GatedRun /\ ExitIsFinal]_vars

\* an exit on a specification with several validation errors, all printed
C12_Witness ==
    /\ pc = "exit" /\ exit_code = 1
    /\ Len(errors) >= 3 /\ printed = errors
    /\ configurations = <<>> /\ output = <<>>

\* two situations that the notation has to tell apart
Distinguished(a, b) ==
    /\ a.state = b.state
    /\ a.head # b.head \/ Stripped(a.tape) # Stripped(b.tape)

ConfigurationOf(a) == get_configuration(a.tape, a.state, a.head)

\* C13: the configuration string represents (tape, head, state) uniquely up to
\* trailing blanks: two situations of a run with the same state that differ in
\* the head position, or in the tape other than its trailing blanks, never
\* have the same configuration.
\* Stated for specifications in which no state is named like a tape symbol, so
\* that the state marker itself cannot be mistaken for a cell.
C13_ConfigurationInjective ==
    (InRun /\ Len(history) = step + 1 /\ Q \cap Symbols = {}) =>
        \A i \in 1..step :
            Distinguished(history[i], history[step + 1])
                => ConfigurationOf(history[i]) # ConfigurationOf(history[step + 1])

\* the ways of cutting the string c at an occurrence of the marker m
SplitsAt(c, m) ==
    { <<SubSeq(c, 1, k), SubSeq(c, k + Len(m) + 1, Len(c))>> :
        k \in { n \in 0..(Len(c) - Len(m)) : SubSeq(c, n + 1, n + Len(m)) = m } }

\* the tape as get_configuration formats it
Kept(t) == IF TrimTape(t) = <<>> THEN <<blank>> ELSE TrimTape(t)

\* C14: for every configuration produced under a specification that passes
\* verify_specification(), splitting the string at the state marker recovers
\* the original left part and right part; the right part is never empty and
\* the trimmed tape keeps at least one symbol.
C14_RoundTrip ==
    (InRun /\ errors = <<>> /\ Len(history) = step + 1) =>
        LET a == history[step + 1]
        IN  /\ SplitsAt(ConfigurationOf(a), StateChars(a.state))
                 = { <<left_part(Kept(a.tape), a.head), right_part(Kept(a.tape), a.head)>> }
            /\ right_part(Kept(a.tape), a.head) # <<>>
            /\ Len(Kept(a.tape)) >= 1

\* the run situation: tape, head, state, step counter, trace, position, result
RunState == <<tape, head, state, step, configurations, pc, result>>

\* the situation run(inp, max) starts from
StartOf(inp) ==
    <<InitialTape(inp), 0, q0, 0, <<StateChars(q0) \o Stripped(InitialTape(inp))>>,
      "while", None>>

\* the one situation that follows the current one
StepOf ==
    IF pc = "while"
    THEN IF step < max_steps /\ state \notin {qaccept, qreject}
         THEN <<(IF head < 0 THEN <<blank>> \o tape
                 ELSE IF head >= Len(tape) THEN Append(tape, blank) ELSE tape),
                (IF head < 0 THEN 0 ELSE head),
                state, step, configurations, "read", result>>
         ELSE <<tape, head, state, step, configurations, "result", result>>
    ELSE IF pc = "read"
    THEN LET hits == {k \in 1..Len(delta) :
                         delta[k].state = state /\ delta[k].symbol = tape[head + 1]}
         IN  IF hits = {}
             THEN <<tape, head, qreject, step,
                    Append(configurations, get_configuration(tape, qreject, head)),
                    "result", result>>
             ELSE LET e  == delta[CHOOSE k \in hits : TRUE]
                      t1 == IF e.direction = "L" /\ head = 0
                            THEN <<blank>> \o [tape EXCEPT ![head + 1] = e.new_symbol]
                            ELSE [tape EXCEPT ![head + 1] = e.new_symbol]
                      h1 == IF e.direction = "R" THEN head + 1
                            ELSE IF e.direction = "L" /\ head > 0 THEN head - 1
                            ELSE head
                  IN  <<t1, h1, e.new_state, step + 1,
                        (IF Sampled(step + 1, e.new_state)
                         THEN Append(configurations, get_configuration(t1, e.new_state, h1))
                         ELSE configurations),
                        "while", result>>
    ELSE IF pc = "result"
    THEN <<tape, head, state, step, configurations, "returned", Result>>
    ELSE <<tape, head, state, step, configurations, "saved", result>>

\* every step of a run goes to the one situation that follows
OneSuccessor ==
    /\ InRun => (RunState' = StepOf /\ UNCHANGED <<tmVars, argVars>>)
    /\ (pc = "verified" /\ InRun') => RunState' = StartOf(input_string')

\* one entry at most answers a lookup
OneOutcomePerKey ==
    InRun => \A i, j \in 1..Len(delta) :
                (delta[i].state = delta[j].state /\ delta[i].symbol = delta[j].symbol)
                    => i = j

\* C15: determinism: from any reachable run situation (tape, head, state,
\* step counter, trace) there is at most one next situation, and the first
\* situation is fixed by the specification and the input, so that two runs
\* of the same specification on the same input with the same max_steps have
\* the same trace and the same result.
C15_Deterministic ==
    /\ []OneOutcomePerKey
    /\ [][OneSuccessor]_vars

\* a finished run that went through a state with several entries
C15_Witness ==
    /\ Returned /\ step >= 3 /\ result = "ACEPTADA"
    /\ \E i, j \in 1..Len(delta) : i # j /\ delta[i].state = delta[j].state

\* the transitions form an infinite loop: from the initial state the machine
\* stays in a set of non-terminal states with an entry for every symbol
NeverHalts ==
    \E S \in SUBSET (Q \ {qaccept, qreject}) :
        /\ q0 \in S
        /\ \A s \in S, a \in Symbols :
              InDelta(delta, s, a) /\ Lookup(delta, s, a).new_state \in S

\* C16: a specification whose transitions form an infinite loop, run with
\* max_steps = 50, has the step-limit result, applies exactly 50 transitions,
\* and its trace has 51 entries, the last being the configuration after
\* step 50.
C16_LoopHitsLimit ==
    (Returned /\ NeverHalts /\ max_steps = LoopSteps) =>
        /\ result = "CICLO INFINITO"
        /\ step = LoopSteps
        /\ Len(history) = LoopSteps + 1
        /\ Len(configurations) = LoopSteps + 1
        /\ configurations[LoopSteps + 1] = ConfigurationOf(history[LoopSteps + 1])
        /\ history[LoopSteps + 1] = Situation(tape, state, head)

\* such a run, ended and saved
C16_Witness ==
    /\ pc = "saved" /\ NeverHalts /\ max_steps = LoopSteps
    /\ step = LoopSteps /\ Len(configurations) = LoopSteps + 1
    /\ result = "CICLO INFINITO"

\* C17: the step count written by save_output and printed by main equals the
\* number of transitions the run applied (the step counter at exit), for
\* every run.
C17_ReportedStepsAreSteps ==
    pc = "saved" => (Len(output) = 1 /\ output[1].pasos = step)

\* C18 as stated: when run() returns, the last entry of the trace is the
\* configuration of the situation in which the run ended, whatever the
\* reason for ending and whatever max_steps.
C18_LastEntryIsFinal ==
    Returned => configurations[Len(configurations)] = get_configuration(tape, state, head)

\* the last step whose configuration the recorder keeps
LastKept ==
    IF Terminal(state) \/ step < DenseLimit THEN step
    ELSE SampleEvery * (step \div SampleEvery)

\* C18 amended: when run() returns, the last entry of the trace is the
\* configuration of the final situation if the run ended in acceptState or
\* rejectState (by a transition or by a missing transition), or at the step
\* limit with a final step below 100 or a multiple of 100; at a step limit
\* above 100 that is not a multiple of 100 it is the configuration after the
\* last multiple of 100 steps, and the steps after it are not in the trace.
C18_LastEntryIsLastSample ==
    (Returned /\ Len(history) = step + 1) =>
        /\ state # qreject =>
              configurations[Len(configurations)] = ConfigurationOf(history[LastKept + 1])
        /\ LastKept = step =>
              configurations[Len(configurations)] = get_configuration(tape, state, head)
        /\ LastKept < step <=>
              (~Terminal(state) /\ step >= DenseLimit /\ step % SampleEvery # 0)
        /\ LastKept < step => result = "CICLO INFINITO" /\ step = max_steps

\* a run stopped by the limit one step after a sampled step
C18_Witness ==
    /\ Returned /\ result = "CICLO INFINITO"
    /\ step = DenseLimit + 1 /\ LastKept = DenseLimit
    /\ Len(configurations) = DenseLimit + 1
    /\ configurations[Len(configurations)] # get_configuration(tape, state, head)

\* every character of the input belongs to the input alphabet
InputInSigma == \A i \in 1..Len(input_string) : input_string[i] \in Sigma

\* C19: alphabet and state closure: for a specification with an empty
\* validation error list and an input whose characters all belong to Sigma,
\* at every point of the run every cell of the live tape holds a symbol of
\* Gamma and the current state is a member of Q.
C19_Closure ==
    (InRun /\ errors = <<>> /\ InputInSigma) =>
        /\ \A i \in 1..Len(tape) : tape[i] \in Gamma
        /\ state \in Q

\* an accepted run over a tape alphabet smaller than the set of symbols
C19_Witness ==
    /\ Returned /\ errors = <<>> /\ InputInSigma
    /\ Gamma = {"1", blank} /\ input_string = <<"1", "1">>
    /\ step = 3 /\ result = "ACEPTADA" /\ Len(tape) = 3

\* C20: the list returned by verify_specification() contains pairwise
\* distinct error descriptions, for every specification.
C20_ErrorsDistinct ==
    Verified => \A i, j \in 1..Len(errors) : i # j => errors[i] # errors[j]

====
